---- MODULE Spec2Model ----
(***************************************************************************)
(* A model of dir2pdf.py: main's argument and precondition checks, the     *)
(* Converter dir2pdf, the Subdirectory Dispatcher subdirs2pdf, and the     *)
(* pure function remove_transparency.                                      *)
(*                                                                         *)
(* Strings (file names, the PDF path, captured values) are sequences of    *)
(* one-character strings, so that sorting, regular-expression matching and *)
(* str.format are computed character by character.                         *)
(*                                                                         *)
(* The directory argument and the output files live in different           *)
(* directories: the program never reads what it has written.               *)
(***************************************************************************)
EXTENDS Integers, Sequences, FiniteSets, TLC

VARIABLES
    args,      \* the parsed command line: [pdf, append, subdirs]
    srcdir,    \* what args.dir names: [kind, entries]
    out,       \* the output files: path -> sequence of PDF pages
    out0,      \* out as it was when the current run of main started
    pc,        \* where the run is
    status,    \* how the run ended ("running" until then)
    todo,      \* subdirs2pdf: the sorted entries not yet visited
    conv,      \* dir2pdf: the frame of the call in progress
    log,       \* what the current run did so far, in order
    runs,      \* number of runs of main started so far
    rt_in,     \* remove_transparency alone: its arguments
    rt_out     \* remove_transparency alone: its result and warnings

vars == <<args, srcdir, out, out0, pc, status, todo, conv, log, runs, rt_in, rt_out>>

-----------------------------------------------------------------------------
(* Bounds *)

MaxEntries == 2    \* entries of the directory argument
MaxOldPages == 2   \* pages of a PDF that exists before the first run
MaxRuns == 2       \* runs of main on the same command line

-----------------------------------------------------------------------------
(* Strings *)

Ord(c) ==
    CASE c = "0" -> 48 [] c = "1" -> 49 [] c = "2" -> 50
      [] c = "a" -> 97 [] c = "b" -> 98 [] c = "o" -> 111
      [] c = "{" -> 123 [] c = "}" -> 125

Digits == {"0", "1", "2"}

\* str.__lt__: lexicographic by code point; a proper prefix is smaller
RECURSIVE StrLess(_, _)
StrLess(a, b) ==
    IF b = <<>> THEN FALSE
    ELSE IF a = <<>> THEN TRUE
    ELSE IF a[1] # b[1] THEN Ord(a[1]) < Ord(b[1])
    ELSE StrLess(Tail(a), Tail(b))

RECURSIVE SortedDesc(_)
SortedDesc(S) ==
    IF S = {} THEN <<>>
    ELSE LET m == CHOOSE x \in S : \A y \in S : y = x \/ StrLess(y.name, x.name)
         IN <<m>> \o SortedDesc(S \ {m})

\* sorted(dir_path.iterdir()): the entries of one directory in ascending name order
RECURSIVE sorted(_)
sorted(S) ==
    IF S = {} THEN <<>>
    ELSE LET m == CHOOSE x \in S : \A y \in S : y = x \/ StrLess(x.name, y.name)
         IN <<m>> \o sorted(S \ {m})

-----------------------------------------------------------------------------
(* Regular expressions: re.compile(arg).match(name)                        *)
(*                                                                         *)
(* A pattern is a sequence of items, each a character class with a         *)
(* quantifier ("one", "opt" for ?, "star" for * ), optionally wrapped in a *)
(* capturing group; outer tells whether the quantifier stands outside the  *)
(* group, as in (b)?, or inside it, as in (b* ).  names[g] is the name of   *)
(* group g, <<>> for a positional group.  In every pattern used here the   *)
(* class of a quantified item is disjoint from what may follow it, so the  *)
(* greedy match is the only one and no backtracking is needed.             *)

None == [set |-> FALSE, s |-> <<>>]
Some(s) == [set |-> TRUE, s |-> s]

Item(cls, quant, grp, outer) == [cls |-> cls, quant |-> quant, grp |-> grp, outer |-> outer]

\* a(\d)
RePos == [id |-> "a(\\d)",
          items |-> <<Item({"a"}, "one", 0, FALSE), Item(Digits, "one", 1, FALSE)>>,
          names |-> << <<>> >>]
\* ([ab])(?P<n>\d)
ReNamed == [id |-> "([ab])(?P<n>\\d)",
            items |-> <<Item({"a", "b"}, "one", 1, FALSE), Item(Digits, "one", 2, FALSE)>>,
            names |-> << <<>>, <<"n">> >>]
\* a
ReWhole == [id |-> "a",
            items |-> <<Item({"a"}, "one", 0, FALSE)>>,
            names |-> << >>]
\* (b)?a
ReOptGroup == [id |-> "(b)?a",
               items |-> <<Item({"b"}, "opt", 1, TRUE), Item({"a"}, "one", 0, FALSE)>>,
               names |-> << <<>> >>]
\* (?P<n>b*)
ReEmpty == [id |-> "(?P<n>b*)",
            items |-> <<Item({"b"}, "star", 1, FALSE)>>,
            names |-> << <<"n">> >>]
Patterns == {RePos, ReNamed, ReWhole, ReOptGroup, ReEmpty}

\* the number of characters of s from position pos on that are in cls
RECURSIVE RunLength(_, _, _)
RunLength(cls, s, pos) ==
    IF pos <= Len(s) /\ s[pos] \in cls THEN 1 + RunLength(cls, s, pos + 1) ELSE 0

NoMatch == [ok |-> FALSE, whole |-> <<>>, groups |-> <<>>, names |-> <<>>]

RECURSIVE MatchItems(_, _, _, _)
MatchItems(items, s, pos, groups) ==
    IF items = <<>> THEN [ok |-> TRUE, end |-> pos, groups |-> groups]
    ELSE LET it == Head(items)
             avail == RunLength(it.cls, s, pos)
             k == CASE it.quant = "one" -> 1
                    [] it.quant = "opt" -> IF avail >= 1 THEN 1 ELSE 0
                    [] it.quant = "star" -> avail
             val == IF it.outer
                    THEN (IF k = 0 THEN None ELSE Some(<<s[pos + k - 1]>>))
                    ELSE Some(SubSeq(s, pos, pos + k - 1))
         IN IF it.quant = "one" /\ avail = 0
            THEN [ok |-> FALSE, end |-> pos, groups |-> groups]
            ELSE MatchItems(Tail(items), s, pos + k,
                            IF it.grp = 0 THEN groups ELSE [groups EXCEPT ![it.grp] = val])

\* subdir_regex.match(subdir.name): the match is anchored at the start of the name
ReMatch(re, name) ==
    LET m == MatchItems(re.items, name, 1, [g \in 1..Len(re.names) |-> None])
    IN IF m.ok
       THEN [ok |-> TRUE, whole |-> SubSeq(name, 1, m.end - 1),
             groups |-> m.groups, names |-> re.names]
       ELSE NoMatch

\* 'n' in match.groupdict()
HasGroupN(m) == \E g \in 1..Len(m.names) : m.names[g] = <<"n">>
\* match.group('n')
GroupN(m) == m.groups[CHOOSE g \in 1..Len(m.names) : m.names[g] = <<"n">>]

SelectedPositionalFirst(m) ==
    IF Len(m.groups) > 0 THEN m.groups[1]
    ELSE Some(m.whole)

\* the value picked from the match: group 'n', else group 1, else the whole match
Selected(m) ==
    IF HasGroupN(m) THEN GroupN(m)
    ELSE IF Len(m.groups) > 0 THEN m.groups[1]
    ELSE Some(m.whole)

\* "not n": None or the empty string
Falsy(n) == ~n.set \/ n.s = <<>>

\* the string substituted into the template
CaptureValue(m, name) == IF Falsy(Selected(m)) THEN name ELSE Selected(m).s

\* '{}' in str(args.pdf)
HasField(t) == \E i \in 1..(Len(t) - 1) : t[i] = "{" /\ t[i + 1] = "}"

\* str(pdf_path).format(n), for a template with at most one field {} and no other brace
Format(t, n) ==
    IF HasField(t)
    THEN LET i == CHOOSE j \in 1..(Len(t) - 1) : t[j] = "{" /\ t[j + 1] = "}"
         IN SubSeq(t, 1, i - 1) \o n \o SubSeq(t, i + 2, Len(t))
    ELSE t

-----------------------------------------------------------------------------
(* Images *)

AlphaModes == {"RGBA", "LA", "PA"}
OtherModes == {"RGB", "L", "P", "CMYK"}
AlphaLevels == {0, 128, 255}

\* an image: whether it decodes, its mode, and the extrema of its band A
\* (<<>> when the mode has no band A)
Img(ok, mode, alpha) == [ok |-> ok, mode |-> mode, alpha |-> alpha]

\* image.convert('RGB')
ConvertRGB(image) == [image EXCEPT !.mode = "RGB", !.alpha = <<>>]

remove_transparency_keep(image, filename) ==
    IF image.mode \in AlphaModes
    THEN IF image.alpha # <<255, 255>>
         THEN [image |-> ConvertRGB(image), warned |-> TRUE]
         ELSE [image |-> image, warned |-> FALSE]
    ELSE [image |-> image, warned |-> FALSE]

remove_transparency(image, filename) ==
    IF image.mode \in AlphaModes
    THEN [image |-> ConvertRGB(image), warned |-> image.alpha # <<255, 255>>]
    ELSE [image |-> image, warned |-> FALSE]


-----------------------------------------------------------------------------
(* The file system and the command line *)

\* a directory entry: a file holding an image, or a directory holding entries
Entry(name, isdir, img, files) == [name |-> name, isdir |-> isdir, img |-> img, files |-> files]

ImgGood == Img(TRUE, "RGB", <<>>)
ImgAlpha == Img(TRUE, "RGBA", <<0, 255>>)
ImgBad == Img(FALSE, "RGB", <<>>)     \* a file that Image.open cannot decode
ImageKinds == {ImgGood, ImgAlpha, ImgBad}
SubImageKinds == {ImgGood, ImgBad}

EntryNames == {<<"a", "1">>, <<"a", "2">>, <<"b", "a">>}
FileNames == {<<"1", "0">>, <<"2">>}

\* the assignments of an entry from opts to at most max names drawn from names
EntrySets(names, opts, max) ==
    UNION {[ns -> opts] : ns \in {x \in SUBSET names : Cardinality(x) <= max}}
Entries(names, f) == {[f[n] EXCEPT !.name = n] : n \in names}
Trees(names, opts, max) ==
    {Entries(DOMAIN f, f) : f \in EntrySets(names, opts, max)}

FileOpts(kinds) == {Entry(<<>>, FALSE, k, {}) : k \in kinds}
\* what a subdirectory may hold
SubdirContents == Trees(FileNames, FileOpts(SubImageKinds), Cardinality(FileNames))
DirOpts == {Entry(<<>>, TRUE, ImgBad, c) : c \in SubdirContents}

Missing == [kind |-> "missing", entries |-> {}]
NotADir == [kind |-> "file", entries |-> {}]
Dir(entries) == [kind |-> "dir", entries |-> entries]

\* the directory argument of a run without --subdirs: image files, or an empty subdirectory
FlatDirs ==
    {Dir(t) : t \in Trees(EntryNames, FileOpts(ImageKinds) \cup {Entry(<<>>, TRUE, ImgBad, {})},
                          MaxEntries)}
\* the directory argument of a run with --subdirs: files and subdirectories
BaseDirs ==
    {Dir(t) : t \in Trees(EntryNames, FileOpts({ImgGood}) \cup DirOpts, MaxEntries)}

NoSubdirs == [id |-> "", items |-> <<>>, names |-> <<>>]   \* args.subdirs is None
Templates == {<<"o">>, <<"o", "{", "}">>}
DirArg == <<"d">>      \* the name of the directory argument

\* a page of a PDF: the image it was made from, or the idx-th page of a PDF that was there before
Page(dir, file, mode) == [dir |-> dir, file |-> file, mode |-> mode, idx |-> 0]
OldPage(i) == [dir |-> <<>>, file |-> <<>>, mode |-> "RGB", idx |-> i]
OldPdf(n) == [i \in 1..n |-> OldPage(i)]
EmptyOut == [p \in {} |-> <<>>]
OneFile(path, pages) == [p \in {path} |-> pages]

\* the output files a run may find: none, or one PDF of 1..MaxOldPages pages
InitialOuts(a) ==
    LET path == IF a.subdirs = NoSubdirs THEN a.pdf ELSE Format(a.pdf, <<"1">>)
    IN {EmptyOut} \cup {OneFile(path, OldPdf(n)) : n \in 1..MaxOldPages}

\* im.save(path, format='PDF', append=append).  With append=True Image.save opens the
\* path with open(path, "r+b"), which raises FileNotFoundError when the file is absent;
\* with append=False it opens it with "w+b", creating or truncating it.
SaveFails(o, path, append) == append /\ path \notin DOMAIN o
Save(o, path, page, append) ==
    [p \in DOMAIN o \cup {path} |->
        IF p # path THEN o[p]
        ELSE IF append THEN Append(o[p], page)
        ELSE <<page>>]

\* Image.open(file) succeeds
CanOpen(f) == ~f.isdir /\ f.img.ok

Ev(ev, dir, file, pdf, flag) == [ev |-> ev, dir |-> dir, file |-> file, pdf |-> pdf, flag |-> flag]

\* warnings.warn(text).  The event records the call; its flag tells whether the warning
\* is shown, that is, written to stderr by showwarning.  Under the default filter of the
\* warnings module a text is shown once per calling line in a process, and a call that
\* repeats a text already shown from the same line writes nothing.  The text names the
\* file for line 60, the subdirectory for lines 75 and 87, and only the PDF for line 94.
IsWarning(e) ==
    e.ev \in {"warn_transparency", "warn_not_a_directory", "warn_empty_group", "warn_exists"}
WarningText(e) == IF e.ev = "warn_exists" THEN <<e.pdf>> ELSE <<e.dir, e.file>>
AlreadyShown(l, e) ==
    \E i \in DOMAIN l : l[i].ev = e.ev /\ WarningText(l[i]) = WarningText(e)
Warn(l, ev, dir, file, pdf) ==
    LET e == Ev(ev, dir, file, pdf, TRUE)
    IN Append(l, [e EXCEPT !.flag = ~AlreadyShown(l, e)])
NoConv == [dir |-> <<>>, pdf |-> <<>>, files |-> <<>>, i |-> 0, append |-> FALSE, before |-> EmptyOut]

\* sys.exit / parser.error / an uncaught exception: the exit status of the process
ExitStatus(st) ==
    CASE st = "ok" -> 0
      [] st = "application_error" -> 1
      [] st = "argument_error" -> 2
      [] st = "traceback" -> 1
      [] OTHER -> -1


-----------------------------------------------------------------------------
(* The state after argument parsing *)

CommandLines ==
    [pdf : Templates, append : BOOLEAN, subdirs : Patterns \cup {NoSubdirs}]

Init ==
    /\ args \in CommandLines
    /\ srcdir \in IF args.subdirs = NoSubdirs
                  THEN {Missing, NotADir} \cup FlatDirs
                  ELSE {Missing, NotADir} \cup BaseDirs
    /\ out \in InitialOuts(args)
    /\ out0 = out
    /\ pc = "main"
    /\ status = "running"
    /\ todo = <<>>
    /\ conv = NoConv
    /\ log = <<>>
    /\ runs = 1
    /\ rt_in = <<>>
    /\ rt_out = <<>>

rt_vars == <<rt_in, rt_out>>

\* the process ends with the given status
Exit(st) ==
    /\ pc' = "done"
    /\ status' = st

\* an exception raised inside dir2pdf is caught by nobody: the process ends with a traceback
RaiseIsolated ==
    IF args.subdirs = NoSubdirs
    THEN Exit("traceback")
    ELSE pc' = "subdirs" /\ status' = status

Raise == Exit("traceback")

\* the status parser.error ends the process with
UsageErrorAsExit == "application_error"
UsageError == "argument_error"

\* not args.append and args.pdf.exists()
MustNotExistNever(a, o) == FALSE
MustNotExist(a, o) == ~a.append /\ a.pdf \in DOMAIN o

-----------------------------------------------------------------------------
(* main *)

\* if args.subdirs is not None: the PDF must contain the format field
main_CheckPlaceholder ==
    /\ pc = "main"
    /\ args.subdirs # NoSubdirs
    /\ log' = Append(log, Ev("check_placeholder", <<>>, <<>>, args.pdf, FALSE))
    /\ IF ~HasField(args.pdf) THEN Exit(UsageError)
       ELSE pc' = "check_dir" /\ status' = status
    /\ UNCHANGED <<args, srcdir, out, out0, todo, conv, runs, rt_vars>>

\* elif not args.append and args.pdf.exists()
main_CheckPdfExists ==
    /\ pc = "main"
    /\ args.subdirs = NoSubdirs
    /\ log' = IF args.append THEN log
              ELSE Append(log, Ev("check_pdf_exists", <<>>, <<>>, args.pdf, FALSE))
    /\ IF MustNotExist(args, out) THEN Exit("application_error")
       ELSE pc' = "check_dir" /\ status' = status
    /\ UNCHANGED <<args, srcdir, out, out0, todo, conv, runs, rt_vars>>

\* if not args.dir.is_dir()
main_CheckIsDir ==
    /\ pc = "check_dir"
    /\ log' = Append(log, Ev("check_is_dir", DirArg, <<>>, <<>>, FALSE))
    /\ IF srcdir.kind # "dir" THEN Exit("application_error")
       ELSE pc' = "check_empty" /\ status' = status
    /\ UNCHANGED <<args, srcdir, out, out0, todo, conv, runs, rt_vars>>

\* next(args.dir.iterdir()) raises StopIteration
main_CheckNonEmpty ==
    /\ pc = "check_empty"
    /\ log' = Append(log, Ev("check_iterdir", DirArg, <<>>, <<>>, FALSE))
    /\ IF srcdir.entries = {} THEN Exit("application_error")
       ELSE pc' = "dispatch" /\ status' = status
    /\ UNCHANGED <<args, srcdir, out, out0, todo, conv, runs, rt_vars>>

\* the frame of dir2pdf(dir_path, pdf_path, title, author, append) after files = sorted(...)
dir2pdf_Frame(name, entries, pdf, append) ==
    [dir |-> name, pdf |-> pdf, files |-> sorted(entries), i |-> 0, append |-> append,
     before |-> out]

\* dir2pdf(args.dir, args.pdf, args.title, args.author, args.append)
main_dir2pdf ==
    /\ pc = "dispatch"
    /\ args.subdirs = NoSubdirs
    /\ conv' = dir2pdf_Frame(DirArg, srcdir.entries, args.pdf, args.append)
    /\ log' = Append(log, Ev("call", DirArg, <<>>, args.pdf, args.pdf \in DOMAIN out))
    /\ pc' = "dir2pdf"
    /\ UNCHANGED <<args, srcdir, out, out0, status, todo, runs, rt_vars>>

\* subdirs2pdf(args.dir, args.pdf, args.subdirs, ...): for subdir in sorted(basedir_path.iterdir())
main_subdirs2pdf ==
    /\ pc = "dispatch"
    /\ args.subdirs # NoSubdirs
    /\ todo' = sorted(srcdir.entries)
    /\ pc' = "subdirs"
    /\ UNCHANGED <<args, srcdir, out, out0, status, conv, log, runs, rt_vars>>

-----------------------------------------------------------------------------
(* subdirs2pdf *)

\* elif not subdir.is_dir()
NotADirectoryNever(subdir) == FALSE
NotADirectory(subdir) == ~subdir.isdir

\* if not append and pdf.exists()
SkipExisting(append, pdf, o) == ~append /\ pdf \in DOMAIN o

\* one iteration of the loop over the sorted entries of the base directory
subdirs2pdf_Step ==
    /\ pc = "subdirs"
    /\ todo # <<>>
    /\ LET subdir == Head(todo)
           match == ReMatch(args.subdirs, subdir.name)
           n == CaptureValue(match, subdir.name)
           pdf == Format(args.pdf, n)
           named == IF Falsy(Selected(match))
                    THEN Warn(log, "warn_empty_group", subdir.name, <<>>, <<>>)
                    ELSE log
       IN /\ todo' = Tail(todo)
          /\ IF ~match.ok
             THEN UNCHANGED <<pc, conv, log>>
             ELSE IF NotADirectory(subdir)
             THEN /\ log' = Warn(log, "warn_not_a_directory", subdir.name, <<>>, <<>>)
                  /\ UNCHANGED <<pc, conv>>
             ELSE IF SkipExisting(args.append, pdf, out)
             THEN /\ log' = Warn(named, "warn_exists", subdir.name, <<>>, pdf)
                  /\ UNCHANGED <<pc, conv>>
             ELSE /\ log' = Append(named, Ev("call", subdir.name, <<>>, pdf, pdf \in DOMAIN out))
                  /\ conv' = dir2pdf_Frame(subdir.name, subdir.files, pdf, args.append)
                  /\ pc' = "dir2pdf"
    /\ UNCHANGED <<args, srcdir, out, out0, status, runs, rt_vars>>

\* the loop is over: subdirs2pdf and main return
subdirs2pdf_Return ==
    /\ pc = "subdirs"
    /\ todo = <<>>
    /\ Exit("ok")
    /\ UNCHANGED <<args, srcdir, out, out0, todo, conv, log, runs, rt_vars>>

-----------------------------------------------------------------------------
(* dir2pdf *)

\* the append argument of the save of the first page
FirstPageAppendNever(append) == FALSE
FirstPageAppend(append) == append

\* with Image.open(file) as im: im = remove_transparency(im, file); im.save(pdf_path, ...)
dir2pdf_OpenAndSave(file, append) ==
    IF ~CanOpen(file) THEN Raise /\ UNCHANGED <<out, conv, log>>
    ELSE LET r == remove_transparency(file.img, file.name)
             warned == IF r.warned
                       THEN Warn(log, "warn_transparency", conv.dir, file.name, <<>>)
                       ELSE log
         IN IF SaveFails(out, conv.pdf, append)
            THEN /\ Raise
                 /\ log' = warned
                 /\ UNCHANGED <<out, conv>>
            ELSE /\ out' = Save(out, conv.pdf, Page(conv.dir, file.name, r.image.mode), append)
                 /\ log' = Append(warned, Ev("save", conv.dir, file.name, conv.pdf, append))
                 /\ conv' = [conv EXCEPT !.i = conv.i + 1]
                 /\ UNCHANGED <<pc, status>>

\* the title page: files[0], saved with append=append
dir2pdf_FirstPage ==
    /\ pc = "dir2pdf"
    /\ conv.i = 0
    /\ IF conv.files = <<>>
       THEN Raise /\ UNCHANGED <<out, conv, log>>      \* files[0]: IndexError
       ELSE dir2pdf_OpenAndSave(conv.files[1], FirstPageAppend(conv.append))
    /\ UNCHANGED <<args, srcdir, out0, todo, runs, rt_vars>>

\* for file in files[1:]: saved with append=True
dir2pdf_NextPage ==
    /\ pc = "dir2pdf"
    /\ conv.i >= 1
    /\ conv.i < Len(conv.files)
    /\ dir2pdf_OpenAndSave(conv.files[conv.i + 1], TRUE)
    /\ UNCHANGED <<args, srcdir, out0, todo, runs, rt_vars>>

\* dir2pdf returns: to the loop of subdirs2pdf, or to main, which returns
dir2pdf_Return ==
    /\ pc = "dir2pdf"
    /\ conv.i >= 1
    /\ conv.i = Len(conv.files)
    /\ IF args.subdirs = NoSubdirs THEN Exit("ok")
       ELSE pc' = "subdirs" /\ status' = status
    /\ UNCHANGED <<args, srcdir, out, out0, todo, conv, log, runs, rt_vars>>

-----------------------------------------------------------------------------
(* The same command line is run again on what the last run left *)

RunAgain ==
    /\ pc = "done"
    /\ runs < MaxRuns
    /\ runs' = runs + 1
    /\ pc' = "main"
    /\ status' = "running"
    /\ out0' = out
    /\ todo' = <<>>
    /\ conv' = NoConv
    /\ log' = <<>>
    /\ UNCHANGED <<args, srcdir, out, rt_vars>>

Next ==
    \/ main_CheckPlaceholder
    \/ main_CheckPdfExists
    \/ main_CheckIsDir
    \/ main_CheckNonEmpty
    \/ main_dir2pdf
    \/ main_subdirs2pdf
    \/ subdirs2pdf_Step
    \/ subdirs2pdf_Return
    \/ dir2pdf_FirstPage
    \/ dir2pdf_NextPage
    \/ dir2pdf_Return
    \/ RunAgain

Spec == Init /\ [][Next]_vars


-----------------------------------------------------------------------------
(* remove_transparency on its own: every mode, every pair of extrema of the *)
(* band A, every file name                                                   *)

Images ==
    {Img(TRUE, m, <<lo, hi>>) : m \in AlphaModes,
                                lo \in AlphaLevels, hi \in AlphaLevels} \cup
    {Img(TRUE, m, <<>>) : m \in OtherModes}
WellFormed(image) == image.alpha = <<>> \/ image.alpha[1] <= image.alpha[2]

InitRT ==
    /\ args = [pdf |-> <<"o">>, append |-> FALSE, subdirs |-> NoSubdirs]
    /\ srcdir = Missing
    /\ out = EmptyOut
    /\ out0 = EmptyOut
    /\ pc = "remove_transparency"
    /\ status = "running"
    /\ todo = <<>>
    /\ conv = NoConv
    /\ log = <<>>
    /\ runs = 1
    /\ rt_in \in {[image |-> im, filename |-> f] :
                     im \in {x \in Images : WellFormed(x)}, f \in EntryNames \cup FileNames}
    /\ rt_out = <<>>

remove_transparency_Call ==
    /\ pc = "remove_transparency"
    /\ rt_out' = remove_transparency(rt_in.image, rt_in.filename)
    /\ pc' = "returned"
    /\ UNCHANGED <<args, srcdir, out, out0, status, todo, conv, log, runs, rt_in>>

NextRT == remove_transparency_Call

SpecRT == InitRT /\ [][NextRT]_vars


-----------------------------------------------------------------------------
(* Vocabulary of the properties *)

IsCall(e) == e.ev = "call"
IsFsCheck(e) == e.ev \in {"check_pdf_exists", "check_is_dir", "check_iterdir"}
Calls == SelectSeq(log, IsCall)
\* a warning of the given kind about dir was written to stderr
Logged(kind, dir) == \E i \in DOMAIN log : log[i].ev = kind /\ log[i].dir = dir /\ log[i].flag

\* the entries of the directory the Converter was invoked on
SourceEntries(d) ==
    IF args.subdirs = NoSubdirs THEN srcdir.entries
    ELSE UNION {e.files : e \in {x \in srcdir.entries : x.name = d}}

\* the save events of the current invocation of the Converter
SavesOfCall ==
    LET IsMine(e) == e.ev = "save" /\ e.dir = conv.dir
    IN SelectSeq(log, IsMine)

\* pages holds one page per entry, made from the entries in ascending name order
AscendingImageOf(pages, d, entries) ==
    /\ Len(pages) = Cardinality(entries)
    /\ \A k \in DOMAIN pages :
          /\ pages[k].dir = d
          /\ pages[k].idx = 0
          /\ \E e \in entries : e.name = pages[k].file
          /\ \A j \in 1..(k - 1) : StrLess(pages[j].file, pages[k].file)

\* the Converter has saved a page for every entry of its directory
Completed ==
    /\ conv # NoConv
    /\ conv.i >= 1
    /\ conv.i = Cardinality(SourceEntries(conv.dir))

-----------------------------------------------------------------------------
(* C1: when dir2pdf with append=False has saved every entry of a directory   *)
(* of N >= 1 decodable entries to a path that did not exist, the PDF holds   *)
(* exactly N pages, page i made from the i-th entry in ascending name order, *)
(* written by N saves in that order, all to that path, the first one         *)
(* creating the file and the others appending.                               *)
C1_PagesInSortedOrder ==
    (Completed /\ ~conv.append /\ conv.pdf \notin DOMAIN conv.before) =>
        /\ conv.pdf \in DOMAIN out
        /\ AscendingImageOf(out[conv.pdf], conv.dir, SourceEntries(conv.dir))
        /\ Len(SavesOfCall) = Len(out[conv.pdf])
        /\ \A k \in DOMAIN SavesOfCall :
              /\ SavesOfCall[k].file = out[conv.pdf][k].file
              /\ SavesOfCall[k].pdf = conv.pdf
              /\ SavesOfCall[k].flag = (k > 1)

C1_Witness ==
    /\ Completed /\ ~conv.append /\ conv.pdf \notin DOMAIN conv.before
    /\ args.subdirs = NoSubdirs
    /\ pc = "done" /\ status = "ok"
    /\ Len(out[conv.pdf]) = MaxEntries
    /\ out[conv.pdf][1].file = <<"a", "1">>

(* C2: without --subdirs and without --append, a run that finds the output   *)
(* path existing never gets past main's first check: it ends with exit       *)
(* status 1, dir2pdf is not invoked and no output file changes; this holds   *)
(* of every run, so of every repetition.                                     *)
C2_ExistingOutputRefused ==
    (args.subdirs = NoSubdirs /\ ~args.append /\ args.pdf \in DOMAIN out0) =>
        /\ pc \in {"main", "done"}
        /\ out = out0
        /\ Calls = <<>>
        /\ conv = NoConv
        /\ pc = "done" => /\ status = "application_error"
                          /\ ExitStatus(status) = 1
                          /\ Len(log) = 1 /\ log[1].ev = "check_pdf_exists"

C2_Witness ==
    /\ args.subdirs = NoSubdirs /\ ~args.append /\ args.pdf \in DOMAIN out0
    /\ srcdir.kind = "dir" /\ srcdir.entries # {}
    /\ runs = MaxRuns
    /\ pc = "done"
    /\ status = "application_error"
    /\ Len(out[args.pdf]) = MaxOldPages

(* C3: when dir2pdf with append=True has saved every entry of a directory of *)
(* M >= 1 decodable entries to a PDF that had N pages, the PDF holds N+M     *)
(* pages: the N pages it had, in order, then the M images in ascending name  *)
(* order; every save, the first included, was issued with append=True.       *)
C3_AppendKeepsOldPages ==
    (Completed /\ conv.append /\ conv.pdf \in DOMAIN conv.before) =>
        LET old == conv.before[conv.pdf]
            new == out[conv.pdf]
            M == Cardinality(SourceEntries(conv.dir))
        IN /\ Len(new) = Len(old) + M
           /\ SubSeq(new, 1, Len(old)) = old
           /\ AscendingImageOf(SubSeq(new, Len(old) + 1, Len(new)), conv.dir,
                               SourceEntries(conv.dir))
           /\ Len(SavesOfCall) >= M
           /\ \A k \in 1..M : SavesOfCall[Len(SavesOfCall) - M + k].flag

C3_Witness ==
    /\ Completed /\ conv.append /\ conv.pdf \in DOMAIN conv.before
    /\ args.subdirs = NoSubdirs
    /\ runs = 1
    /\ pc = "done" /\ status = "ok"
    /\ Len(conv.before[conv.pdf]) = MaxOldPages
    /\ Len(out[conv.pdf]) = MaxOldPages + MaxEntries


\* the run is in subdirs2pdf, or has been
LoopStarted ==
    /\ args.subdirs # NoSubdirs
    /\ \/ pc \in {"subdirs", "dir2pdf"}
       \/ pc = "done" /\ status \in {"ok", "traceback"}
\* the loop of subdirs2pdf has taken the entry x
Visited(x) == LoopStarted /\ \A k \in DOMAIN todo : todo[k] # x
\* the subdirectory the event is about was reached: handed to the Converter, or skipped as existing
IsReached(e) == e.ev \in {"call", "warn_exists"}

(* C4: the value substituted into the template for a matched subdirectory is *)
(* the group named n if the pattern declares one, else group 1 if the        *)
(* pattern has a group, else the whole match; when that value is empty or    *)
(* the group took no part in the match, the base name of the subdirectory is *)
(* substituted and a warning is emitted, and no such warning otherwise.      *)
C4_CaptureValuePriority ==
    args.subdirs # NoSubdirs =>
        \A i \in DOMAIN log : IsReached(log[i]) =>
            LET name == log[i].dir
                re == args.subdirs
                m == ReMatch(re, name)
                named == {g \in DOMAIN re.names : re.names[g] = <<"n">>}
                chosen == IF named # {} THEN m.groups[CHOOSE g \in named : TRUE]
                          ELSE IF Len(re.names) >= 1 THEN m.groups[1]
                          ELSE Some(m.whole)
                empty == ~chosen.set \/ Len(chosen.s) = 0
            IN /\ args.pdf = <<"o", "{", "}">>
               /\ log[i].pdf = <<"o">> \o (IF empty THEN name ELSE chosen.s)
               /\ empty <=> Logged("warn_empty_group", name)

C4_Witness ==
    /\ args.subdirs = ReOptGroup
    /\ \E i \in DOMAIN log : /\ log[i].ev = "call"
                             /\ log[i].dir = <<"a", "1">>
                             /\ log[i].pdf = <<"o", "a", "1">>
    /\ \E i \in DOMAIN log : /\ log[i].ev = "call"
                             /\ log[i].dir = <<"b", "a">>
                             /\ log[i].pdf = <<"o", "b">>
    /\ Logged("warn_empty_group", <<"a", "1">>)
    /\ pc = "done" /\ status = "ok"

(* C5: in subdirectory mode without --append the Converter is never invoked  *)
(* on an output path that exists when its subdirectory is reached: the       *)
(* subdirectory is skipped and a warning is written for it.  No file that    *)
(* exists is modified, of the subdirectories that compute the same name only *)
(* the first reached is converted, and every output file holds pages of at   *)
(* most one subdirectory.                                                    *)
C5_ExistingOutputSkipped ==
    (args.subdirs # NoSubdirs /\ ~args.append) =>
        /\ \A i \in DOMAIN log :
              /\ log[i].ev = "call" => ~log[i].flag
              /\ log[i].ev = "warn_exists" => (log[i].pdf \in DOMAIN out /\ log[i].flag)
              /\ \A j \in (i + 1)..Len(log) :
                    (log[i].ev = "call" /\ IsReached(log[j]) /\ log[j].pdf = log[i].pdf)
                        => log[j].ev = "warn_exists"
        /\ \A p \in DOMAIN out0 : p \in DOMAIN out /\ out[p] = out0[p]
        /\ \A p \in DOMAIN conv.before : p \in DOMAIN out /\ out[p] = conv.before[p]
        /\ \A p \in DOMAIN out : Cardinality({out[p][k].dir : k \in DOMAIN out[p]}) <= 1
        /\ \A x \in srcdir.entries :
              (Visited(x) /\ x.isdir /\ ReMatch(args.subdirs, x.name).ok) =>
                  Cardinality({i \in DOMAIN log : IsReached(log[i]) /\ log[i].dir = x.name}) = 1

(* C6: in subdirectory mode the Converter is invoked only on directories     *)
(* whose base name the pattern matches from its first character on, and      *)
(* every page written comes from such a directory.  An entry the pattern     *)
(* does not match leaves no trace, a matching entry that is not a directory  *)
(* leaves a warning and nothing else; the loop goes on to the next entry,    *)
(* and a run that only skips ends with exit status 0 and no file changed.    *)
C6_OnlyMatchingDirectoriesConverted ==
    args.subdirs # NoSubdirs =>
        LET first == args.subdirs.items[1]
            Anchored(name) == first.quant = "one" => name[1] \in first.cls
            Convertible(x) == x.isdir /\ ReMatch(args.subdirs, x.name).ok /\ Anchored(x.name)
        IN /\ \A i \in DOMAIN log : log[i].ev \in {"call", "save", "warn_exists"} =>
                 \E x \in srcdir.entries : x.name = log[i].dir /\ Convertible(x)
           /\ \A p \in DOMAIN out : \A k \in DOMAIN out[p] : out[p][k].idx = 0 =>
                 \E x \in srcdir.entries : x.name = out[p][k].dir /\ Convertible(x)
           /\ \A x \in srcdir.entries : Visited(x) =>
                 /\ ~ReMatch(args.subdirs, x.name).ok =>
                       \A i \in DOMAIN log : log[i].dir # x.name
                 /\ (ReMatch(args.subdirs, x.name).ok /\ ~x.isdir) =>
                       /\ Logged("warn_not_a_directory", x.name)
                       /\ \A i \in DOMAIN log :
                             log[i].dir = x.name => log[i].ev = "warn_not_a_directory"
           /\ (pc = "done" /\ status = "ok") => todo = <<>>
           /\ (pc = "done" /\ LoopStarted /\ Calls = <<>>) =>
                 /\ status = "ok" /\ ExitStatus(status) = 0
                 /\ out = out0

C6_Witness ==
    /\ args.subdirs = ReWhole
    /\ pc = "done" /\ status = "ok"
    /\ Calls = <<>>
    /\ out = out0
    /\ \E x, y \in srcdir.entries :
          /\ x.name = <<"a", "1">> /\ ~x.isdir
          /\ y.name = <<"b", "a">> /\ y.isdir /\ y.files # {}
    /\ Logged("warn_not_a_directory", <<"a", "1">>)
    /\ \A i \in DOMAIN log : log[i].dir # <<"b", "a">>


(* C7, as stated: an image whose alpha channel is not uniformly 255 is       *)
(* warned about and converted to RGB; an image with no alpha channel, or     *)
(* with alpha uniformly 255, is not warned about and keeps its mode.         *)
C7_OpaqueKeepsMode ==
    pc = "returned" =>
        LET im == rt_in.image
            opaque == im.alpha = <<>> \/ im.alpha = <<255, 255>>
        IN /\ ~opaque => (rt_out.warned /\ rt_out.image.mode = "RGB")
           /\ opaque => (~rt_out.warned /\ rt_out.image.mode = im.mode)

(* C7, amended: an image in mode RGBA, LA or PA is always converted to RGB,  *)
(* with a warning exactly when its alpha channel is not uniformly 255; an    *)
(* image in any other mode is not warned about and is returned as it is.     *)
C7_AlphaModesAlwaysConverted ==
    pc = "returned" =>
        LET im == rt_in.image
        IN /\ im.mode \in {"RGBA", "LA", "PA"} =>
                 /\ rt_out.image.mode = "RGB"
                 /\ rt_out.image.alpha = <<>>
                 /\ rt_out.warned <=> (im.alpha[1] < 255 \/ im.alpha[2] < 255)
           /\ im.mode \notin {"RGBA", "LA", "PA"} =>
                 /\ rt_out.image = im
                 /\ ~rt_out.warned

C7_Witness ==
    /\ pc = "returned"
    /\ rt_in.image.mode = "RGBA"
    /\ rt_in.image.alpha = <<255, 255>>
    /\ rt_out.image.mode = "RGB"
    /\ ~rt_out.warned

\* the failures main detects, read off the command line and the file system
MissingPlaceholder == args.subdirs # NoSubdirs /\ ~HasField(args.pdf)
PreconditionFails ==
    /\ ~MissingPlaceholder
    /\ \/ args.subdirs = NoSubdirs /\ ~args.append /\ args.pdf \in DOMAIN out0
       \/ srcdir.kind # "dir"
       \/ srcdir.entries = {}

(* C8: a run whose template lacks {} under --subdirs, whose directory        *)
(* argument is missing, not a directory or empty, or whose output exists     *)
(* without --subdirs and --append, ends before dir2pdf or subdirs2pdf is     *)
(* invoked and changes no output file; the missing placeholder ends it with  *)
(* exit status 2 before any check of the file system, the other failures     *)
(* with exit status 1.                                                       *)
C8_FailuresBeforeAnyWrite ==
    /\ (MissingPlaceholder \/ PreconditionFails) =>
          /\ pc \in {"main", "check_dir", "check_empty", "done"}
          /\ out = out0
          /\ Calls = <<>>
          /\ conv = NoConv
          /\ todo = <<>>
          /\ pc = "done" =>
                /\ status = (IF MissingPlaceholder THEN "argument_error" ELSE "application_error")
                /\ ExitStatus(status) = (IF MissingPlaceholder THEN 2 ELSE 1)
    /\ MissingPlaceholder => \A i \in DOMAIN log : ~IsFsCheck(log[i])
    /\ \A i \in DOMAIN log :
          (args.subdirs # NoSubdirs /\ IsFsCheck(log[i])) =>
              \E j \in 1..(i - 1) : log[j].ev = "check_placeholder"

C8_Witness ==
    /\ MissingPlaceholder
    /\ srcdir = Missing
    /\ out0 # EmptyOut
    /\ pc = "done"
    /\ ExitStatus(status) = 2
    /\ out = out0
    /\ Len(log) = 1

(* C9: every directory dir2pdf is invoked on holds at least one entry, so    *)
(* files[0] never fails on an empty list.                                    *)
C9_ConverterDirectoryNonEmpty ==
    /\ \A i \in DOMAIN log : log[i].ev = "call" => SourceEntries(log[i].dir) # {}
    /\ pc = "dir2pdf" => conv.files # <<>>

\* an invocation of the Converter was left before it had saved every entry
Abandoned == conv # NoConv /\ pc # "dir2pdf" /\ ~Completed

(* C10: in subdirectory mode the subdirectories are handed to the Converter  *)
(* in ascending name order, and when the Converter fails on one the run is   *)
(* over: it ends with a non-zero exit status, no entry after the failing one *)
(* is visited, every other output file is as it was when the failing         *)
(* invocation began, and the pages the failing invocation had saved are      *)
(* still in its output file.                                                 *)
C10_ConverterFailureEndsRun ==
    args.subdirs # NoSubdirs =>
        /\ \A i, j \in DOMAIN Calls : i < j => StrLess(Calls[i].dir, Calls[j].dir)
        /\ Abandoned =>
              LET entries == SourceEntries(conv.dir)
                  later == {x \in srcdir.entries : StrLess(conv.dir, x.name)}
                  kept == IF conv.append /\ conv.pdf \in DOMAIN conv.before
                          THEN conv.before[conv.pdf] ELSE <<>>
              IN /\ pc = "done" /\ status = "traceback" /\ ExitStatus(status) # 0
                 /\ {todo[k] : k \in DOMAIN todo} = later
                 /\ \A x \in later : \A i \in DOMAIN log : log[i].dir # x.name
                 /\ \A p \in DOMAIN conv.before \ {conv.pdf} :
                       p \in DOMAIN out /\ out[p] = conv.before[p]
                 /\ DOMAIN out \subseteq DOMAIN conv.before \cup {conv.pdf}
                 /\ conv.i = 0 => out = conv.before
                 /\ conv.i >= 1 =>
                       /\ Len(out[conv.pdf]) = Len(kept) + conv.i
                       /\ SubSeq(out[conv.pdf], 1, Len(kept)) = kept
                       /\ \A k \in 1..conv.i :
                             LET page == out[conv.pdf][Len(kept) + k]
                             IN /\ page.dir = conv.dir /\ page.idx = 0
                                /\ \E e \in entries : e.name = page.file
                                /\ Cardinality({e \in entries : StrLess(e.name, page.file)})
                                      = k - 1

C10_Witness ==
    /\ args.subdirs # NoSubdirs
    /\ Abandoned
    /\ pc = "done" /\ status = "traceback"
    /\ conv.i >= 1
    /\ conv.dir = <<"a", "1">>
    /\ Len(out[conv.pdf]) = conv.i
    /\ Len(todo) = 1 /\ todo[1].isdir /\ todo[1].files # {}
    /\ ReMatch(args.subdirs, todo[1].name).ok


====
